---- MODULE Spec2Model ----
(***************************************************************************)
(* A state-machine model of pydis.py (long-slit spectrum reduction):       *)
(*   SpecAp    : ap_trace -> ap_extract -> sky_fit -> mapwavelength         *)
(*   SpecPeaks : HeNeAr_fit, peak detection and per-peak centring           *)
(*   Spec      : HeNeAr_fit, line matching, vertical tracing, surface fit   *)
(*                                                                         *)
(* Conventions.  A numpy array is a sequence; array index k is sequence    *)
(* position k+1.  The code is Python 2 on the numpy of its day: `/` on     *)
(* ints is floor division, a float used as a slice bound is truncated by   *)
(* int(), and a boolean mask one shorter than the array it indexes selects *)
(* among the leading elements.  Sub-pixel positions along the spatial axis *)
(* are kept in units of 1/Sub pixel.  scipy's curve_fit is an optimiser:   *)
(* it either raises RuntimeError (no convergence) or returns the centre of *)
(* the peak present in the data it was given.                              *)
(***************************************************************************)
EXTENDS Integers, Sequences, FiniteSets, TLC

(* ------------------------------ bounds --------------------------------- *)
NRows == 6         \* img.shape[0] of the object frame
NCols == 3         \* img.shape[1] of the object frame
MaxSteps == 6      \* largest nsteps passed to ap_trace
MaxAp == 3         \* largest apwidth (whole pixels)
Sub == 2           \* sub-pixel resolution of a trace value
SkySep == 1        \* skysep argument of sky_fit
SkyWidth == 2      \* skywidth argument of sky_fit
SliceLen == 26     \* len(slice): columns of the arc frame
NRowsArc == 4      \* img.shape[0] of the arc frame

(* ------------------------- program constants --------------------------- *)
skydeg == 2        \* sky_fit(..., skydeg=2)
splk == 3          \* UnivariateSpline(..., k=3)
medk == 5          \* medfilt2d(img, kernel_size=(5,5))
pct == 97          \* flux_thresh = tmp[int(len(tmp)*0.97)]
pwidth == 10       \* pixels around a peak to fit over
tol == 15          \* matching tolerance, angstroms
w1d_order == 3     \* order of the 1-d wavelength polynomial
xfitd == 3         \* spline degree of the surface, both directions

(* --------------------------- Python helpers ---------------------------- *)
Abs(a) == IF a < 0 THEN -a ELSE a

Max2(a, b) == IF a >= b THEN a ELSE b

Min2(a, b) == IF a <= b THEN a ELSE b

\* int(a/b) for b > 0: truncation toward zero
PyInt(a, b) == IF a >= 0 THEN a \div b ELSE -((-a) \div b)

\* a slice bound k on an axis of length n, as Python normalises it
PySliceBound(k, n) == IF k < 0 THEN Max2(k + n, 0) ELSE Min2(k, n)

\* the indices selected by [lo:hi] on an axis of length n
PySlice(lo, hi, n) == PySliceBound(lo, n) .. (PySliceBound(hi, n) - 1)

RECURSIVE Pow(_, _)
Pow(b, e) == IF e = 0 THEN 1 ELSE b * Pow(b, e - 1)

RECURSIVE SumOver(_, _)
\* sum of f[k] for k in the finite set S
SumOver(f, S) ==
    IF S = {} THEN 0
    ELSE LET k == CHOOSE x \in S : TRUE IN f[k] + SumOver(f, S \ {k})

RECURSIVE SumSeq(_)
SumSeq(s) == IF s = <<>> THEN 0 ELSE Head(s) + SumSeq(Tail(s))

\* np.argmax: index (0-based) of the first maximum
ArgMax(s) ==
    CHOOSE k \in 0..(Len(s) - 1) :
        /\ \A m \in 0..(Len(s) - 1) : s[m + 1] <= s[k + 1]
        /\ \A m \in 0..(k - 1) : s[m + 1] < s[k + 1]

(* ------------------------ exact least squares -------------------------- *)
Minor(M, c) ==
    [r \in 1..(Len(M) - 1) |->
        [k \in 1..(Len(M) - 1) |-> IF k < c THEN M[r + 1][k] ELSE M[r + 1][k + 1]]]

RECURSIVE Det(_)
Det(M) ==
    IF Len(M) = 0 THEN 1
    ELSE SumSeq([c \in 1..Len(M) |->
            (IF c % 2 = 1 THEN 1 ELSE -1) * M[1][c] * Det(Minor(M, c))])

\* np.polyfit(xs, ys, deg) by the normal equations and Cramer's rule.  The
\* coefficients (highest power first) are num[k]/den with one denominator.
PolyFitExact(xs, ys, deg) ==
    LET n  == deg + 1
        A  == [r \in 1..n |-> [c \in 1..n |->
                 SumSeq([p \in 1..Len(xs) |-> Pow(xs[p], 2 * deg + 2 - r - c)])]]
        b  == [r \in 1..n |->
                 SumSeq([p \in 1..Len(xs) |-> ys[p] * Pow(xs[p], deg + 1 - r)])]
        Ak(k) == [r \in 1..n |-> [c \in 1..n |-> IF c = k THEN b[r] ELSE A[r][c]]]
        d  == Det(A)
        sg == IF d < 0 THEN -1 ELSE 1
    IN [num |-> [k \in 1..n |-> sg * Det(Ak(k))], den |-> sg * d]

PolyFit(xs, ys, deg) == PolyFitExact(xs, ys, deg)

\* numerator of np.polyval(coeff, x); the value is PolyValNum / coeff.den
PolyValNum(coeff, x) ==
    SumSeq([k \in 1..Len(coeff.num) |-> coeff.num[k] * Pow(x, Len(coeff.num) - k)])

(* ------------------------------- state --------------------------------- *)
VARIABLES
    pc,           \* position in the running function
    err,          \* the exception that ended the run ("" while none)
    \* object frame: ap_trace, ap_extract, sky_fit, mapwavelength
    img,          \* the 2-d frame, img[row+1][column+1]
    nsteps,       \* ap_trace(img, nsteps)
    ybins,        \* ap_trace: fitted centre per window
    trace,        \* the trace, one value per column, in 1/Sub pixel
    apwidth,      \* aperture half-width, whole pixels
    widthup,      \* ap_extract: upper half-width in use, in 1/Sub pixel
    widthdn,      \* ap_extract: lower half-width in use, in 1/Sub pixel
    onedspec,     \* ap_extract: the summed flux per column
    skysubflux,   \* sky_fit: the sky per column, <<numerator, denominator>>
    wavemap,      \* the wavelength surface handed to mapwavelength
    trace_wave,   \* mapwavelength: wavelength per column, in 1/Sub unit
    i,            \* loop index i of the running loop
    \* arc frame: HeNeAr_fit
    slice,        \* flux of the central rows, summed; read up to line 213
    nslice,       \* len(slice)
    disp_approx,  \* header DISPDW
    wcen_approx,  \* header DISPWC
    sign,         \* -1 for the red chip, else 1
    flux_thresh,  \* the peak threshold
    high,         \* pixels at or above the threshold
    pk,           \* peak candidates
    pcent_pix,    \* fitted centre per candidate, pixels
    wcent_pix,    \* wavelength per candidate, <<numerator, denominator>>
    linewave,     \* the line list
    ss,           \* candidates ordered by distance from the centre wavelength
    coeff,        \* the 1-d wavelength polynomial, [num, den]
    pcent,        \* accepted peaks, pixels
    wcent,        \* accepted peaks, line-list wavelengths
    fmask,        \* rows the flat calls illuminated; <<1>> is the default
    tilt,         \* arc frame: columns a line shifts per row
    ydata1,       \* rows at and above the centre, ascending
    ydata2,       \* rows below the centre, descending
    dir,          \* which of the two row loops is running
    j,            \* position in that loop's row list
    cguess,       \* centre guess carried from row to row
    pguess,       \* the initial guess handed to curve_fit
    xcent_big,    \* point cloud: fitted column
    ycent_big,    \* point cloud: row
    wcent_big,    \* point cloud: wavelength
    wfit          \* the surface returned

apvars == <<img, nsteps, ybins, trace, apwidth, widthup, widthdn, onedspec,
            skysubflux, wavemap, trace_wave>>

arcvars == <<slice, nslice, disp_approx, wcen_approx, sign, flux_thresh, high, pk,
             pcent_pix, wcent_pix, linewave, ss, coeff, pcent, wcent, fmask, tilt,
             ydata1, ydata2, dir, j, cguess, pguess, xcent_big, ycent_big,
             wcent_big, wfit>>

vars == <<pc, err, i, apvars, arcvars>>

\* HeNeAr_fit has not been entered
ArcIdle ==
    /\ slice = <<>> /\ nslice = 0 /\ disp_approx = 0 /\ wcen_approx = 0 /\ sign = 1
    /\ flux_thresh = 0 /\ high = <<>> /\ pk = <<>> /\ pcent_pix = <<>>
    /\ wcent_pix = <<>> /\ linewave = <<>> /\ ss = <<>>
    /\ coeff = [num |-> <<>>, den |-> 1] /\ pcent = <<>> /\ wcent = <<>>
    /\ fmask = <<1>> /\ tilt = 0 /\ ydata1 = <<>> /\ ydata2 = <<>> /\ dir = "up"
    /\ j = 0 /\ cguess = 0 /\ pguess = [center |-> 0, sigma |-> 2]
    /\ xcent_big = <<>> /\ ycent_big = <<>> /\ wcent_big = <<>> /\ wfit = "none"

(* ====================== ap_trace .. mapwavelength ====================== *)
Rows(im) == Len(im)          \* img.shape[0]

Cols(im) == Len(im[1])       \* img.shape[1]

\* img[r, c] with zero padding outside the frame (medfilt2d pads with zeros)
Pix(im, r, c) ==
    IF r >= 0 /\ r < Rows(im) /\ c >= 0 /\ c < Cols(im) THEN im[r + 1][c + 1] ELSE 0

\* scipy.signal.medfilt2d(img, kernel_size=(5,5)): the median of the medk x medk
\* neighbourhood, the (medk*medk \div 2 + 1)-th smallest value
MedFilt2d(im) ==
    LET h    == medk \div 2
        Nb   == (-h..h) \X (-h..h)
        vals == {0} \cup {im[r][c] : r \in 1..Rows(im), c \in 1..Cols(im)}
        Med(r, c) ==
            CHOOSE v \in vals :
                /\ Cardinality({d \in Nb : Pix(im, r + d[1], c + d[2]) <= v})
                       >= (medk * medk) \div 2 + 1
                /\ \A u \in vals :
                       Cardinality({d \in Nb : Pix(im, r + d[1], c + d[2]) <= u})
                           >= (medk * medk) \div 2 + 1  => v <= u
    IN [r \in 1..Rows(im) |-> [c \in 1..Cols(im) |-> Med(r - 1, c - 1)]]

\* int(np.linspace(0, img.shape[1], nsteps)[k]) for nsteps >= 2
XBin(im, n, k) == (k * Cols(im)) \div (n - 1)

\* zi = img_sm[:, xbins[k]:xbins[k+1]].sum(axis=1)
WindowProfile(im, n, k) ==
    LET sm == MedFilt2d(im)
        W  == PySlice(XBin(im, n, k), XBin(im, n, k + 1), Cols(im))
    IN [r \in 1..Rows(im) |-> SumOver([c \in W |-> sm[r][c + 1]], W)]

\* mx = np.arange(0, img.shape[1]): the columns the spline is evaluated at
MxColsMutant(im) == [c \in 1..Rows(im) |-> c - 1]

MxCols(im) == [c \in 1..Cols(im) |-> c - 1]

\* np.zeros_like(a)
ZerosLike(a) == [k \in 1..Len(a) |-> 0]

\* the frames: a flat sky of 1.0, with or without a source along one row
Frame(src, amp) ==
    [r \in 1..NRows |-> [c \in 1..NCols |-> IF r - 1 = src THEN 1 + amp ELSE 1]]

AllOnes(im) == \A r \in 1..Rows(im) : \A c \in 1..Cols(im) : im[r][c] = 1

\* values a trace can take: every sub-pixel position on the frame and one
\* pixel beyond either edge
TraceVals == (-Sub)..(Sub * NRows + Sub - 1)

InitAp ==
    /\ pc = "ap_trace"
    /\ err = ""
    /\ \E src \in 0..(NRows - 1), amp \in {0, 2} : img = Frame(src, amp)
    /\ nsteps \in 1..MaxSteps
    /\ ybins = [k \in 1..nsteps |-> 0]
    /\ trace = <<>>
    /\ apwidth = 0
    /\ widthup = 0
    /\ widthdn = 0
    /\ onedspec = <<>>
    /\ skysubflux = <<>>
    /\ wavemap = [w0 |-> 0, dx |-> 0, dy |-> 0]
    /\ trace_wave = <<>>
    /\ i = 0
    /\ ArcIdle

\* ap_trace, one pass of the window loop: the Gaussian fit converges
ApTraceFit ==
    /\ pc = "ap_trace"
    /\ i < nsteps - 1
    /\ ybins' = [ybins EXCEPT ![i + 1] = ArgMax(WindowProfile(img, nsteps, i))]
    /\ i' = i + 1
    /\ UNCHANGED <<arcvars, pc, err, img, nsteps, trace, apwidth, widthup, widthdn,
                   onedspec, skysubflux, wavemap, trace_wave>>

\* ap_trace, one pass of the window loop: curve_fit raises RuntimeError
ApTraceFitFails ==
    /\ pc = "ap_trace"
    /\ i < nsteps - 1
    /\ pc' = "error"
    /\ err' = "RuntimeError"
    /\ UNCHANGED <<i, apvars, arcvars>>

\* ap_trace: UnivariateSpline needs more than k points
ApTraceSplineFails ==
    /\ pc = "ap_trace"
    /\ i = nsteps - 1
    /\ nsteps - 1 <= splk
    /\ pc' = "error"
    /\ err' = "SplineError"
    /\ UNCHANGED <<i, apvars, arcvars>>

\* ap_trace: the spline is evaluated at every column and returned; the
\* caller passes the trace on to ap_extract with its apwidth
ApTraceReturn ==
    /\ pc = "ap_trace"
    /\ i = nsteps - 1
    /\ nsteps - 1 > splk
    /\ \E t0 \in TraceVals, sl \in -1..1 :
           trace' = [k \in 1..Len(MxCols(img)) |-> t0 + sl * MxCols(img)[k]]
    /\ apwidth' \in 1..MaxAp
    /\ onedspec' = ZerosLike(trace')
    /\ i' = 0
    /\ pc' = "ap_extract"
    /\ UNCHANGED <<arcvars, err, img, nsteps, ybins, widthup, widthdn, skysubflux,
                   wavemap, trace_wave>>

\* ap_extract: widthup after the upper-edge test of lines 116-119
WidthUpMutant(t, ap, rows) == IF t + ap >= rows * Sub THEN rows * Sub - t - Sub ELSE ap

WidthUp(t, ap, rows) == IF t + ap > rows * Sub THEN rows * Sub - t - Sub ELSE ap

\* ap_extract: widthdn after the lower-edge test of lines 117-121
WidthDn(t, ap) == IF t - ap < 0 THEN t - Sub ELSE ap

\* the rows img[trace[i]-widthdn : trace[i]+widthup, i] selects
ApWindow(t, wdn, wup, rows) == PySlice(PyInt(t - wdn, Sub), PyInt(t + wup, Sub), rows)

\* ap_extract, one pass of the column loop
ApExtractStep ==
    /\ pc = "ap_extract"
    /\ i < Len(trace)
    /\ LET t   == trace[i + 1]
           wup == WidthUp(t, apwidth * Sub, Rows(img))
           wdn == WidthDn(t, apwidth * Sub)
           W   == ApWindow(t, wdn, wup, Rows(img))
       IN /\ widthup' = wup
          /\ widthdn' = wdn
          /\ onedspec' = [onedspec EXCEPT
                             ![i + 1] = SumOver([r \in W |-> img[r + 1][i + 1]], W)]
    /\ i' = i + 1
    /\ UNCHANGED <<arcvars, pc, err, img, nsteps, ybins, trace, apwidth, skysubflux,
                   wavemap, trace_wave>>

\* ap_extract returns onedspec; the caller goes on to sky_fit
ApExtractReturn ==
    /\ pc = "ap_extract"
    /\ i = Len(trace)
    /\ skysubflux' = [k \in 1..Len(ZerosLike(trace)) |-> <<0, 1>>]
    /\ i' = 0
    /\ pc' = "sky_fit"
    /\ UNCHANGED <<arcvars, err, img, nsteps, ybins, trace, apwidth, widthup, widthdn,
                   onedspec, wavemap, trace_wave>>

\* y = np.append(np.arange(itrace-skysep-skywidth, itrace-skysep),
\*               np.arange(itrace+skysep, itrace+skysep+skywidth))
SkyRows(itrace) ==
    [k \in 1..(2 * SkyWidth) |->
        IF k <= SkyWidth THEN itrace - SkySep - SkyWidth + (k - 1)
        ELSE itrace + SkySep + (k - SkyWidth - 1)]

\* img[y, i] is defined: every index lies in -rows .. rows-1
SkyRowsInFrame(y, rows) == \A k \in 1..Len(y) : y[k] >= -rows /\ y[k] < rows

\* z = img[y, i]; a negative index counts from the last row
SkyPixels(im, y, c) ==
    [k \in 1..Len(y) |->
        im[(IF y[k] < 0 THEN y[k] + Rows(im) ELSE y[k]) + 1][c + 1]]

\* np.sum(np.polyval(pfit, np.arange(trace[i]-apwidth, trace[i]+apwidth))),
\* as <<numerator, denominator>>; the abscissae are (t - ap*Sub + k*Sub)/Sub
SkySum(pfit, t, ap) ==
    LET deg == Len(pfit.num) - 1
        h(k) == t - ap * Sub + k * Sub
        term(k) == SumSeq([m \in 1..(deg + 1) |->
                       pfit.num[m] * Pow(h(k), deg + 1 - m) * Pow(Sub, m - 1)])
    IN <<SumSeq([k \in 1..(2 * ap) |-> term(k - 1)]), pfit.den * Pow(Sub, deg)>>

\* sky_fit, one pass of the column loop
SkyFitStep ==
    /\ pc = "sky_fit"
    /\ i < Len(trace)
    /\ LET t == trace[i + 1]
           y == SkyRows(PyInt(t, Sub))
       IN /\ SkyRowsInFrame(y, Rows(img))
          /\ skysubflux' = [skysubflux EXCEPT
                 ![i + 1] = SkySum(PolyFit(y, SkyPixels(img, y, i), skydeg),
                                     t, apwidth)]
    /\ i' = i + 1
    /\ UNCHANGED <<arcvars, pc, err, img, nsteps, ybins, trace, apwidth, widthup, widthdn,
                   onedspec, wavemap, trace_wave>>

\* sky_fit: a sky band reaches past the frame and img[y, i] raises IndexError
SkyFitIndexError ==
    /\ pc = "sky_fit"
    /\ i < Len(trace)
    /\ ~SkyRowsInFrame(SkyRows(PyInt(trace[i + 1], Sub)), Rows(img))
    /\ pc' = "error"
    /\ err' = "IndexError"
    /\ UNCHANGED <<i, apvars, arcvars>>

\* sky_fit returns; HeNeAr_fit's surface becomes available to the caller
SkyFitReturn ==
    /\ pc = "sky_fit"
    /\ i = Len(trace)
    /\ \E d \in {-10, 10}, b \in 0..1 : wavemap' = [w0 |-> 50, dx |-> d, dy |-> b]
    /\ pc' = "mapwavelength"
    /\ UNCHANGED <<arcvars, err, img, nsteps, ybins, trace, apwidth, widthup, widthdn,
                   onedspec, skysubflux, trace_wave, i>>

\* wavemap.ev(x, y), y in 1/Sub pixel, the result in 1/Sub wavelength unit
Ev(wm, x, y) == Sub * (wm.w0 + wm.dx * x) + wm.dy * y

\* np.arange(len(trace))
ArangeLen(a) == [k \in 1..Len(a) |-> k - 1]

\* mapwavelength(trace, wavemap)
MapWavelength ==
    /\ pc = "mapwavelength"
    /\ trace_wave' = [k \in 1..Len(ArangeLen(trace)) |->
                         Ev(wavemap, ArangeLen(trace)[k], trace[k])]
    /\ pc' = "done"
    /\ UNCHANGED <<arcvars, err, img, nsteps, ybins, trace, apwidth, widthup, widthdn,
                   onedspec, skysubflux, wavemap, i>>

NextAp ==
    \/ ApTraceFit
    \/ ApTraceFitFails
    \/ ApTraceSplineFails
    \/ ApTraceReturn
    \/ ApExtractStep
    \/ ApExtractReturn
    \/ SkyFitStep
    \/ SkyFitIndexError
    \/ SkyFitReturn
    \/ MapWavelength

SpecAp == InitAp /\ [][NextAp]_vars

(* ============================= HeNeAr_fit ============================== *)
\* the elements of a sequence
Range(a) == {a[k] : k \in 1..Len(a)}

RECURSIVE Ascending(_)
\* the members of a finite set of integers, ascending
Ascending(S) ==
    IF S = {} THEN <<>>
    ELSE LET m == CHOOSE x \in S : \A y \in S : x <= y
         IN <<m>> \o Ascending(S \ {m})

\* a[lo:hi] of a sequence, Python slice semantics
SliceOf(a, lo, hi) ==
    LET b == PySliceBound(lo, Len(a))
        e == PySliceBound(hi, Len(a))
    IN [k \in 1..Max2(e - b, 0) |-> a[b + k]]

\* a // 2 of Python 2 for a >= 0
Half(a) == a \div 2

\* wtemp[k] = (k - len(slice)/2) * disp_approx * sign + wcen_approx
Wtemp(k, n, disp, sg, wcen) == (k - Half(n)) * disp * sg + wcen

\* tmp = slice.copy(); tmp.sort(); flux_thresh = tmp[int(len(tmp)*0.97)]
FluxThresh(sl) ==
    LET q == (Len(sl) * pct) \div 100
    IN CHOOSE v \in Range(sl) :
           /\ Cardinality({k \in 1..Len(sl) : sl[k] < v}) <= q
           /\ q < Cardinality({k \in 1..Len(sl) : sl[k] <= v})

\* high = np.where(slice >= flux_thresh)[0]
HighPixels(sl, th) == Ascending({k - 1 : k \in {m \in 1..Len(sl) : sl[m] >= th}})

\* pk = high[(high[1:] - high[:-1]) > 1]: the mask has len(high)-1 entries and
\* picks among the first len(high)-1 elements of high
PeakEnds(hi) ==
    LET keep == {k \in 1..(Len(hi) - 1) : hi[k + 1] - hi[k] > 1}
    IN [m \in 1..Cardinality(keep) |-> hi[Ascending(keep)[m]]]

\* pk = pk[pk > pwidth]; pk = pk[pk < (len(slice)-pwidth)]
InsideMargin(x, n) == x > pwidth /\ x < n - pwidth

MarginFilter(p, n) == SelectSeq(p, LAMBDA x : InsideMargin(x, n))

\* the arc slices: flux 1 on a set of lit pixels around the fit margins, 0 elsewhere
LitZone == (pwidth - 1)..(SliceLen - pwidth + 1)

ArcSlice(lit) == [k \in 1..SliceLen |-> IF (k - 1) \in lit THEN 1 ELSE 0]

\* the line lists on file
LineLists == {<<12, 33, 50, 66, 91>>, <<50, 12, 85, 200>>}

\* the object-frame functions are not running
ApIdle ==
    /\ img = <<>> /\ nsteps = 0 /\ ybins = <<>> /\ trace = <<>> /\ apwidth = 0
    /\ widthup = 0 /\ widthdn = 0 /\ onedspec = <<>> /\ skysubflux = <<>>
    /\ wavemap = [w0 |-> 0, dx |-> 0, dy |-> 0] /\ trace_wave = <<>>

\* HeNeAr_fit at line 177: the frame is read and the slice taken
InitPeaks ==
    /\ pc = "detect"
    /\ err = ""
    /\ i = 0
    /\ ApIdle
    /\ \E lit \in SUBSET LitZone : slice = ArcSlice(lit)
    /\ nslice = SliceLen
    /\ disp_approx = 20
    /\ wcen_approx = 50
    /\ sign \in {-1, 1}
    /\ flux_thresh = 0 /\ high = <<>> /\ pk = <<>> /\ pcent_pix = <<>>
    /\ wcent_pix = <<>> /\ linewave = <<>> /\ ss = <<>>
    /\ coeff = [num |-> <<>>, den |-> 1] /\ pcent = <<>> /\ wcent = <<>>
    /\ fmask = <<1>> /\ tilt = 0 /\ ydata1 = <<>> /\ ydata2 = <<>> /\ dir = "up"
    /\ j = 0 /\ cguess = 0 /\ pguess = [center |-> 0, sigma |-> 2]
    /\ xcent_big = <<>> /\ ycent_big = <<>> /\ wcent_big = <<>> /\ wfit = "none"

\* lines 177-201: threshold, pixels above it, peak candidates, margins
DetectPeaks ==
    /\ pc = "detect"
    /\ flux_thresh' = FluxThresh(slice)
    /\ high' = HighPixels(slice, flux_thresh')
    /\ pk' = MarginFilter(PeakEnds(high'), Len(slice))
    /\ pcent_pix' = ZerosLike(pk')
    /\ wcent_pix' = [k \in 1..Len(ZerosLike(pk')) |-> <<0, 1>>]
    /\ i' = 0
    /\ pc' = "centre"
    /\ UNCHANGED <<err, apvars, slice, nslice, disp_approx, wcen_approx, sign,
                   linewave, ss, coeff, pcent, wcent, fmask, tilt, ydata1, ydata2,
                   dir, j, cguess, pguess, xcent_big, ycent_big, wcent_big, wfit>>

\* lines 203-213, one candidate: the Gaussian fit converges on the peak of yi
FitPeak ==
    /\ pc = "centre"
    /\ i < Len(pk)
    /\ LET lo == pk[i + 1] - pwidth
           yi == SliceOf(slice, lo, pk[i + 1] + pwidth * 2)
           xi == SliceOf([k \in 1..Len(slice) |->
                            Wtemp(k - 1, Len(slice), disp_approx, sign, wcen_approx)],
                         lo, pk[i + 1] + pwidth * 2)
       IN /\ pcent_pix' = [pcent_pix EXCEPT ![i + 1] = lo + ArgMax(yi)]
          /\ wcent_pix' = [wcent_pix EXCEPT ![i + 1] = <<xi[ArgMax(yi) + 1], 1>>]
    /\ i' = i + 1
    /\ UNCHANGED <<pc, err, apvars, slice, nslice, disp_approx, wcen_approx, sign,
                   flux_thresh, high, pk, linewave, ss, coeff, pcent, wcent, fmask,
                   tilt, ydata1, ydata2, dir, j, cguess, pguess, xcent_big,
                   ycent_big, wcent_big, wfit>>

\* lines 207-208: curve_fit raises RuntimeError
FitPeakFails ==
    /\ pc = "centre"
    /\ i < Len(pk)
    /\ pc' = "error"
    /\ err' = "RuntimeError"
    /\ UNCHANGED <<i, apvars, arcvars>>

\* lines 223-228: the line list is loaded
LoadLineList ==
    /\ pc = "centre"
    /\ i = Len(pk)
    /\ linewave' \in LineLists
    /\ pc' = "sort"
    /\ UNCHANGED <<err, i, apvars, slice, nslice, disp_approx, wcen_approx, sign,
                   flux_thresh, high, pk, pcent_pix, wcent_pix, ss, coeff, pcent,
                   wcent, fmask, tilt, ydata1, ydata2, dir, j, cguess, pguess,
                   xcent_big, ycent_big, wcent_big, wfit>>

NextPeaks == DetectPeaks \/ FitPeak \/ FitPeakFails \/ LoadLineList

SpecPeaks == InitPeaks /\ [][NextPeaks]_vars

(* ---------------- matching, vertical tracing, surface fit --------------- *)
\* np.argmin: index (0-based) of the first minimum
ArgMin(a) ==
    CHOOSE k \in 0..(Len(a) - 1) :
        /\ \A m \in 0..(Len(a) - 1) : a[k + 1] <= a[m + 1]
        /\ \A m \in 0..(k - 1) : a[k + 1] < a[m + 1]

\* np.argsort of an array of at most 16 keys (insertion sort: ties keep their order)
ArgSort(keys) ==
    LET n == Len(keys)
        rank(k) == Cardinality({m \in 1..n :
                       keys[m] < keys[k] \/ (keys[m] = keys[k] /\ m < k)})
    IN [r \in 1..n |-> (CHOOSE k \in 1..n : rank(k) = r - 1) - 1]

\* ss = np.argsort(np.abs(wcent_pix - wcen_approx)); wcent_pix are whole numbers here
CentreOrder(w, wcen) == ArgSort([k \in 1..Len(w) |-> Abs(w[k][1] - wcen * w[k][2])])

\* coeff = np.append(np.zeros(w1d_order-1), (disp_approx*sign, wcen_approx))
SeedCoeff(disp, sg, wcen) ==
    [num |-> [k \in 1..(w1d_order + 1) |->
                 IF k <= w1d_order - 1 THEN 0
                 ELSE IF k = w1d_order THEN disp * sg ELSE wcen],
     den |-> 1]

\* wcent_pix = np.polyval(coeff, pcent_pix - len(slice)/2)
Predict(c, pix, n) ==
    [k \in 1..Len(pix) |-> <<PolyValNum(c, pix[k] - Half(n)), c.den>>]

\* np.abs(w - linewave), times the denominator of w
LineDist(w, lw) == [k \in 1..Len(lw) |-> Abs(w[1] - lw[k] * w[2])]

\* min(np.abs(w - linewave)) < tol
WithinTolMutant(w, lw) == \E k \in 1..Len(lw) : LineDist(w, lw)[k] <= tol * w[2]

WithinTol(w, lw) == \E k \in 1..Len(lw) : LineDist(w, lw)[k] < tol * w[2]

\* linewave[np.argmin(np.abs(w - linewave))]
NearestLineMutant(w, lw) == w[1] \div w[2]

NearestLine(w, lw) == lw[ArgMin(LineDist(w, lw)) + 1]

\* the refit of lines 268-269
RefitMutant(c, pc1, wc1, n) ==
    IF Len(pc1) >= w1d_order
    THEN PolyFit([k \in 1..Len(pc1) |-> pc1[k] - Half(n)], wc1, w1d_order)
    ELSE c

Refit(c, pc1, wc1, n) ==
    IF Len(pc1) > w1d_order
    THEN PolyFit([k \in 1..Len(pc1) |-> pc1[k] - Half(n)], wc1, w1d_order)
    ELSE c

\* fitted centres Stage B can leave: distinct whole pixels about the centre column
CentrePixels == (Half(SliceLen) - 2)..(Half(SliceLen) + 2)

\* HeNeAr_fit at line 236: Stage B has left pcent_pix and wcent_pix; the flux,
\* the threshold and the candidates are not read again
Init ==
    /\ pc = "sort"
    /\ err = ""
    /\ i = 0
    /\ ApIdle
    /\ slice = <<>> /\ flux_thresh = 0 /\ high = <<>> /\ pk = <<>>
    /\ nslice = SliceLen
    /\ disp_approx = 20
    /\ wcen_approx = 50
    /\ sign \in {-1, 1}
    /\ \E lit \in SUBSET CentrePixels : pcent_pix = Ascending(lit)
    /\ \E apx \in 0..1 :
           wcent_pix = [k \in 1..Len(pcent_pix) |->
               <<Wtemp(pcent_pix[k] + apx, nslice, disp_approx, sign, wcen_approx), 1>>]
    /\ linewave \in LineLists
    /\ ss = <<>>
    /\ coeff = [num |-> <<>>, den |-> 1] /\ pcent = <<>> /\ wcent = <<>>
    /\ fmask = <<1>> /\ tilt = 0 /\ ydata1 = <<>> /\ ydata2 = <<>> /\ dir = "up"
    /\ j = 0 /\ cguess = 0 /\ pguess = [center |-> 0, sigma |-> 2]
    /\ xcent_big = <<>> /\ ycent_big = <<>> /\ wcent_big = <<>> /\ wfit = "none"

\* lines 236-246: the visiting order and the seed polynomial
SortPeaks ==
    /\ pc = "sort"
    /\ pcent' = <<>>
    /\ wcent' = <<>>
    /\ ss' = CentreOrder(wcent_pix, wcen_approx)
    /\ coeff' = SeedCoeff(disp_approx, sign, wcen_approx)
    /\ i' = 0
    /\ pc' = "match"
    /\ UNCHANGED <<err, apvars, slice, nslice, disp_approx, wcen_approx, sign,
                   flux_thresh, high, pk, pcent_pix, wcent_pix, linewave, fmask,
                   tilt, ydata1, ydata2, dir, j, cguess, pguess, xcent_big,
                   ycent_big, wcent_big, wfit>>

\* lines 248-269, one pass: the peak visited has a line within tolerance
MatchAccept ==
    /\ pc = "match"
    /\ i < Len(pcent_pix)
    /\ wcent_pix' = Predict(coeff, pcent_pix, nslice)
    /\ WithinTol(wcent_pix'[ss[i + 1] + 1], linewave)
    /\ pcent' = Append(pcent, pcent_pix[ss[i + 1] + 1])
    /\ wcent' = Append(wcent, NearestLine(wcent_pix'[ss[i + 1] + 1], linewave))
    /\ coeff' = Refit(coeff, pcent', wcent', nslice)
    /\ i' = i + 1
    /\ UNCHANGED <<pc, err, apvars, slice, nslice, disp_approx, wcen_approx, sign,
                   flux_thresh, high, pk, pcent_pix, linewave, ss, fmask, tilt,
                   ydata1, ydata2, dir, j, cguess, pguess, xcent_big, ycent_big,
                   wcent_big, wfit>>

\* lines 248-260, one pass: no line within tolerance, the peak is skipped
MatchSkip ==
    /\ pc = "match"
    /\ i < Len(pcent_pix)
    /\ wcent_pix' = Predict(coeff, pcent_pix, nslice)
    /\ ~WithinTol(wcent_pix'[ss[i + 1] + 1], linewave)
    /\ i' = i + 1
    /\ UNCHANGED <<pc, err, apvars, slice, nslice, disp_approx, wcen_approx, sign,
                   flux_thresh, high, pk, pcent_pix, linewave, ss, coeff, pcent,
                   wcent, fmask, tilt, ydata1, ydata2, dir, j, cguess, pguess,
                   xcent_big, ycent_big, wcent_big, wfit>>

\* ydata: np.arange(img.shape[0])[fmask] when the mask has more than one entry
MaskRows(fm, rows) == IF Len(fm) > 1 THEN fm ELSE [k \in 1..rows |-> k - 1]

Reverse(a) == [k \in 1..Len(a) |-> a[Len(a) + 1 - k]]

\* ydata1 = ydata[ydata >= img.shape[0]/2]
UpperRows(y, rows) == SelectSeq(y, LAMBDA r : r >= Half(rows))

\* ydata2 = ydata[ydata < img.shape[0]/2][::-1]
LowerRows(y, rows) == Reverse(SelectSeq(y, LAMBDA r : r < Half(rows)))

\* the masks a flat can hand over: the default, or a band of at least two rows
Masks(rows) ==
    {<<1>>} \cup {[k \in 1..(b[2] - b[1] + 1) |-> b[1] + k - 1] :
                     b \in {c \in (0..(rows - 1)) \X (0..(rows - 1)) : c[1] < c[2]}}

RECURSIVE Advance(_, _, _, _, _, _)
\* where the loops of lines 301-331 stand next, from line iL, loop d, position jr
Advance(iL, d, jr, nl, y1, y2) ==
    IF iL >= nl THEN [pc |-> "surface", i |-> iL, dir |-> "up", j |-> 0]
    ELSE IF d = "up"
    THEN IF jr < Len(y1) THEN [pc |-> "trace_guess", i |-> iL, dir |-> "up", j |-> jr]
         ELSE Advance(iL, "down", 0, nl, y1, y2)
    ELSE IF jr < Len(y2) THEN [pc |-> "trace_guess", i |-> iL, dir |-> "down", j |-> jr]
         ELSE Advance(iL + 1, "up", 0, nl, y1, y2)

\* the row the running loop is at
Row == IF dir = "up" THEN ydata1[j + 1] ELSE ydata2[j + 1]

\* the column the arc line of centre-row pixel p occupies in row r of the frame
LineCentre(p, r, tl, rows) == p + tl * (r - Half(rows))

\* lines 275-298: the loop is over; the valid rows are split about the centre
MatchDone ==
    /\ pc = "match"
    /\ i = Len(pcent_pix)
    /\ fmask' \in Masks(NRowsArc)
    /\ tilt' \in 0..1
    /\ ydata1' = UpperRows(MaskRows(fmask', NRowsArc), NRowsArc)
    /\ ydata2' = LowerRows(MaskRows(fmask', NRowsArc), NRowsArc)
    /\ xcent_big' = <<>>
    /\ ycent_big' = <<>>
    /\ wcent_big' = <<>>
    /\ LET nx == Advance(0, "up", 0, Len(pcent), ydata1', ydata2')
       IN pc' = nx.pc /\ i' = nx.i /\ dir' = nx.dir /\ j' = nx.j
    /\ UNCHANGED <<err, apvars, slice, nslice, disp_approx, wcen_approx, sign,
                   flux_thresh, high, pk, pcent_pix, wcent_pix, linewave, ss, coeff,
                   pcent, wcent, cguess, pguess, wfit>>

\* lines 306-311 and 320-325: the row's data and the initial guess
TraceGuess ==
    /\ pc = "trace_guess"
    /\ Len(ydata1) > 0
    /\ cguess' = IF Row = ydata1[1] THEN pcent[i + 1] ELSE cguess
    /\ pguess' = [center |-> cguess', sigma |-> 2]
    /\ pc' = "trace_fit"
    /\ UNCHANGED <<err, i, apvars, slice, nslice, disp_approx, wcen_approx, sign,
                   flux_thresh, high, pk, pcent_pix, wcent_pix, linewave, ss, coeff,
                   pcent, wcent, fmask, tilt, ydata1, ydata2, dir, j, xcent_big,
                   ycent_big, wcent_big, wfit>>

\* line 322 with no row at or above the centre: ydata1[0] raises IndexError
TraceGuessIndexError ==
    /\ pc = "trace_guess"
    /\ Len(ydata1) = 0
    /\ pc' = "error"
    /\ err' = "IndexError"
    /\ UNCHANGED <<i, apvars, arcvars>>

\* lines 312-317 and 326-331: the fit converges on the line in this row
TraceFit ==
    /\ pc = "trace_fit"
    /\ cguess' = LineCentre(pcent[i + 1], Row, tilt, NRowsArc)
    /\ xcent_big' = Append(xcent_big, cguess')
    /\ ycent_big' = Append(ycent_big, Row)
    /\ wcent_big' = Append(wcent_big, wcent[i + 1])
    /\ LET nx == Advance(i, dir, j + 1, Len(pcent), ydata1, ydata2)
       IN pc' = nx.pc /\ i' = nx.i /\ dir' = nx.dir /\ j' = nx.j
    /\ UNCHANGED <<err, apvars, slice, nslice, disp_approx, wcen_approx, sign,
                   flux_thresh, high, pk, pcent_pix, wcent_pix, linewave, ss, coeff,
                   pcent, wcent, fmask, tilt, ydata1, ydata2, pguess, wfit>>

\* lines 312 and 326: curve_fit raises RuntimeError, which nothing catches
TraceFitFails ==
    /\ pc = "trace_fit"
    /\ pc' = "error"
    /\ err' = "RuntimeError"
    /\ UNCHANGED <<i, apvars, arcvars>>

\* FITPACK's surfit needs at least (kx+1)*(ky+1) samples
EnoughSamples(x) == Len(x) >= (xfitd + 1) * (3 + 1)

\* lines 342-347: the surface is fitted and returned
SurfaceFit ==
    /\ pc = "surface"
    /\ EnoughSamples(xcent_big)
    /\ wfit' = "spline"
    /\ pc' = "done"
    /\ UNCHANGED <<err, i, apvars, slice, nslice, disp_approx, wcen_approx, sign,
                   flux_thresh, high, pk, pcent_pix, wcent_pix, linewave, ss, coeff,
                   pcent, wcent, fmask, tilt, ydata1, ydata2, dir, j, cguess, pguess,
                   xcent_big, ycent_big, wcent_big>>

\* lines 344-347 on too few samples: SmoothBivariateSpline warns ("error on
\* entry, no approximation returned") and the object is returned all the same
SurfaceFitWarns ==
    /\ pc = "surface"
    /\ ~EnoughSamples(xcent_big)
    /\ wfit' = "no approximation"
    /\ pc' = "done"
    /\ UNCHANGED <<err, i, apvars, slice, nslice, disp_approx, wcen_approx, sign,
                   flux_thresh, high, pk, pcent_pix, wcent_pix, linewave, ss, coeff,
                   pcent, wcent, fmask, tilt, ydata1, ydata2, dir, j, cguess, pguess,
                   xcent_big, ycent_big, wcent_big>>

\* lines 344-345 on too few samples: the library call itself raises
SurfaceFitRaises ==
    /\ pc = "surface"
    /\ ~EnoughSamples(xcent_big)
    /\ pc' = "error"
    /\ err' = "SplineError"
    /\ UNCHANGED <<i, apvars, arcvars>>

Next ==
    \/ SortPeaks
    \/ MatchAccept
    \/ MatchSkip
    \/ MatchDone
    \/ TraceGuess
    \/ TraceGuessIndexError
    \/ TraceFit
    \/ TraceFitFails
    \/ SurfaceFit
    \/ SurfaceFitWarns
    \/ SurfaceFitRaises

Spec == Init /\ [][Next]_vars

(* =============================== claims ================================ *)

(* C1: in the matching loop every wavelength in wcent is an entry of the   *)
(* line list linewave, every pixel in pcent is a detected peak centre, and  *)
(* pcent and wcent have the same length.                                    *)
C1_MatchedFromLineList ==
    /\ Len(pcent) = Len(wcent)
    /\ \A k \in 1..Len(wcent) : wcent[k] \in Range(linewave)
    /\ \A k \in 1..Len(pcent) : pcent[k] \in Range(pcent_pix)

\* the loop has run five times, matched at least four peaks and refitted
C1_Witness ==
    /\ pc = "match" /\ i = 5 /\ Len(wcent) >= 4 /\ coeff.den > 1

(* C3 (as claimed): a per-row Gaussian fit that does not converge never    *)
(* ends the calibration; its sample is left out and tracing goes on.        *)
C3_FailedRowFitNeverAborts == ~(pc = "error" /\ err = "RuntimeError")

(* C4 (as claimed): once the matching loop has ended with no matched line, *)
(* the run is in an explicit failure raised by HeNeAr_fit itself; it never  *)
(* stands at the surface fit with an empty point cloud nor returns.         *)
C4_ZeroMatchesFailExplicitly ==
    (pc \notin {"sort", "match"} /\ Len(wcent) = 0)
        => (pc = "error" /\ err = "CalibrationMatchFailure")

\* the line-list entries within tol of a predicted wavelength num/den
C5_Near(num, den) == {l \in Range(linewave) : Abs(num - l * den) < tol * den}

\* one pass of the matching loop
C5_Pass == pc = "match" /\ pc' = "match" /\ i < Len(pcent_pix) /\ i' = i + 1

(* C5: the loop visits every detected peak once, in order of non-decreasing *)
(* distance of its approximate wavelength from wcen_approx; the peak        *)
(* visited at step i is accepted iff the polynomial current at that step    *)
(* predicts for it a wavelength strictly within tol of a line-list entry,   *)
(* the wavelength recorded is then a line-list entry nearest the            *)
(* prediction, and nothing else is ever added to the accepted lists.        *)
C5_GreedyOrder ==
    /\ [](pc = "match" /\ i = 0 =>
            /\ Len(ss) = Len(pcent_pix)
            /\ Range(ss) = 0..(Len(pcent_pix) - 1)
            /\ \A a, b \in 1..Len(ss) : a < b =>
                   Abs(wcent_pix[ss[a] + 1][1] - wcen_approx)
                       <= Abs(wcent_pix[ss[b] + 1][1] - wcen_approx))
    /\ [][pc = "match" => ss' = ss /\ pcent_pix' = pcent_pix]_vars
    /\ [][pc = "match" /\ pc' = "match" => C5_Pass]_vars
    /\ [][pc = "match" /\ pc' # "match" => pcent' = pcent /\ wcent' = wcent]_vars
    /\ [][C5_Pass =>
            LET p   == ss[i + 1] + 1
                num == PolyValNum(coeff, pcent_pix[p] - Half(nslice))
            IN IF C5_Near(num, coeff.den) # {}
               THEN /\ pcent' = Append(pcent, pcent_pix[p])
                    /\ \E w \in C5_Near(num, coeff.den) :
                         /\ wcent' = Append(wcent, w)
                         /\ \A l \in Range(linewave) :
                              Abs(num - w * coeff.den) <= Abs(num - l * coeff.den)
               ELSE pcent' = pcent /\ wcent' = wcent]_vars

\* the loop is over: a peak was accepted, a peak was dropped, and the order
\* of the visits was not the order of the pixels
C5_Witness ==
    /\ pc = "match" /\ i = Len(pcent_pix) /\ i >= 4
    /\ Len(pcent) >= 1 /\ Len(pcent) < Len(pcent_pix)
    /\ \E k \in 1..Len(ss) : ss[k] # k - 1

\* coeff is the least-squares cubic through (xs, ys): the residual is
\* orthogonal to every power up to w1d_order
C8_LeastSquares(c, xs, ys) ==
    /\ c.den > 0
    /\ Len(c.num) = w1d_order + 1
    /\ \A r \in 0..w1d_order :
           SumSeq([k \in 1..Len(xs) |->
               (c.den * ys[k] - PolyValNum(c, xs[k])) * Pow(xs[k], r)]) = 0

(* C8: coeff is refitted, by least squares over all accepted pairs, at     *)
(* exactly the steps that accept a peak and leave more than w1d_order       *)
(* pairs; with fewer than w1d_order+1 matches coeff is still the seed       *)
(* [0, .., 0, disp_approx*sign, wcen_approx] and the loop's end hands over  *)
(* to the vertical tracing without an error.                                *)
C8_RefitSteps ==
    /\ [][pc = "match" /\ pc' = "match" =>
            IF Len(pcent') = Len(pcent) + 1 /\ Len(pcent') > w1d_order
            THEN C8_LeastSquares(coeff',
                     [k \in 1..Len(pcent') |-> pcent'[k] - Half(nslice)], wcent')
            ELSE coeff' = coeff]_vars
    /\ [](pc # "sort" /\ Len(pcent) < w1d_order + 1 =>
            /\ coeff.den = 1
            /\ coeff.num = [k \in 1..(w1d_order + 1) |->
                   IF k = w1d_order + 1 THEN wcen_approx
                   ELSE IF k = w1d_order THEN disp_approx * sign ELSE 0])
    /\ [][pc = "match" /\ pc' # "match" => pc' \in {"trace_guess", "surface"}]_vars

\* three lines matched: the seed went on to the vertical tracing unchanged
C8_Witness ==
    /\ pc = "trace_guess" /\ Len(pcent) = 3 /\ Len(pcent_pix) = 5
    /\ coeff.num = <<0, 0, disp_approx * sign, wcen_approx>>

(* C10 (as claimed): the first row fitted in either direction takes the    *)
(* matched centre pcent[i] as its centre guess, every later row the centre  *)
(* fitted in the row before it in the same direction.                       *)
C10_ChainsStartAtCentre ==
    pc = "trace_fit" =>
        pguess.center = IF j = 0 THEN pcent[i + 1] ELSE xcent_big[Len(xcent_big)]

\* the maximal runs of adjacent pixels at or above the threshold
C9_Runs ==
    LET H == Range(high)
    IN {r \in H \X H :
           /\ r[1] <= r[2]
           /\ \A x \in r[1]..r[2] : x \in H
           /\ (r[1] - 1) \notin H
           /\ (r[2] + 1) \notin H}

(* C9 (as claimed): every maximal run of adjacent pixels at or above the   *)
(* threshold that lies more than pwidth pixels from both edges yields       *)
(* exactly one peak candidate, located inside the run.                      *)
C9_EveryRunOneCandidate ==
    pc = "centre" =>
        \A r \in C9_Runs :
            (r[1] > pwidth /\ r[2] < nslice - pwidth) =>
                Cardinality({k \in 1..Len(pk) : pk[k] \in r[1]..r[2]}) = 1

(* C2 (as claimed): for a trace value in [0, rows) the half-widths used    *)
(* for a column are not negative and the rows summed lie inside the frame.  *)
C2_AperturesClamped ==
    (pc = "ap_extract" /\ i >= 1 /\ trace[i] >= 0 /\ trace[i] < Sub * Rows(img)) =>
        /\ widthup >= 0
        /\ widthdn >= 0
        /\ PyInt(trace[i] - widthdn, Sub) >= 0
        /\ PyInt(trace[i] + widthup, Sub) <= Rows(img)

\* the columns whose sum ap_extract has stored
C6_Summed ==
    1..(IF pc = "ap_extract" THEN i
        ELSE IF pc \in {"sky_fit", "mapwavelength", "done"} THEN Len(trace) ELSE 0)

\* no clamp applies: the aperture of column k fits between the row edges
C6_Unclamped(k) ==
    trace[k] - apwidth * Sub >= 0 /\ trace[k] + apwidth * Sub <= Sub * Rows(img)

(* C6: on a frame of all 1.0 every column whose aperture needs no clamp    *)
(* sums to exactly 2*apwidth; a sum that differs is in a clamped column.    *)
C6_FlatFrameSum ==
    AllOnes(img) =>
        \A k \in C6_Summed : C6_Unclamped(k) => onedspec[k] = 2 * apwidth

\* a flat frame, an aperture of 2, a sub-pixel trace nowhere clamped
C6_Witness ==
    /\ pc = "sky_fit" /\ AllOnes(img) /\ apwidth = 2
    /\ \A k \in 1..Len(trace) : C6_Unclamped(k) /\ onedspec[k] = 4
    /\ \E k \in 1..Len(trace) : trace[k] % Sub # 0

(* C7: ap_trace returns one value per column of the frame whatever nsteps, *)
(* and ap_extract, sky_fit and mapwavelength each return one value per      *)
(* trace entry.                                                             *)
C7_LengthsPreserved ==
    /\ pc \in {"ap_extract", "sky_fit", "mapwavelength", "done"} =>
           Len(trace) = Cols(img)
    /\ pc \in {"sky_fit", "mapwavelength", "done"} => Len(onedspec) = Len(trace)
    /\ pc \in {"mapwavelength", "done"} => Len(skysubflux) = Len(trace)
    /\ pc = "done" => Len(trace_wave) = Len(trace)

\* all four functions have returned, with more windows than columns
C7_Witness ==
    /\ pc = "done" /\ nsteps - 1 > Cols(img)
    /\ Len(trace_wave) = Cols(img) /\ Len(skysubflux) = Cols(img)

====
